---- MODULE Spec2Model ----
(***************************************************************************)
(* Model of pages/static/pages/js/site.js: the theme controller, the       *)
(* drawer controller and the desktop hover-menu controller, driven by the  *)
(* DOM events the script registers handlers for.  Events arrive in any     *)
(* order; one action is one event dispatch and runs every handler the      *)
(* script registered for that event.                                       *)
(***************************************************************************)
EXTENDS Integers, FiniteSets, Sequences, TLC

\* ---------------------------------------------------------------- bounds
\* number of top-level ".menu__item.has-sub" items on the page
NumItems == 2
\* number of setTimeout calls one page life may make (timer ids 1..MaxTimers)
MaxTimers == 3

\* number of nodes of the navigation tree
MaxNodes == 3

\* length of a heading text of the slug model
MaxText == 4
\* length of a heading text of the escaping model
MaxEscLen == 4

\* ------------------------------------------------------------- constants
\* the "(min-width: 981px)" media query
DesktopMin == 981
\* the deferred-close delay handed to setTimeout (milliseconds)
CloseDelay == 120

\* null (no item, no timer handle)
NULL == 0
\* getItem() / getAttribute() result when nothing is set
Absent == "absent"

Items == 1..NumItems
TimerIds == 1..MaxTimers

\* viewport widths on both sides of the breakpoint
Widths == {DesktopMin - 1, DesktopMin}

\* values the data-theme attribute ships with in the page markup
DocThemes == {Absent, "dark", "sepia"}
\* values found under the "theme" key when the page loads
StoredThemes == {Absent, "light", "dark", "blue"}

\* keys of a keydown event
Keys == {"Escape", "Tab"}

\* elements a pointer event can name as target / relatedTarget:
\* the trigger part of an item, the submenu of an item, or the rest of the
\* page; NoTarget is a null relatedTarget
NoTarget == <<"none", NULL>>
PageTarget == <<"page", NULL>>
Targets == {NoTarget, PageTarget} \cup ({"trigger", "submenu"} \X Items)

VARIABLES
  width,         \* viewport width (decides mqDesktop.matches)
  docDefault,    \* data-theme attribute as shipped in the markup
  stored,        \* localStorage "theme"
  dataTheme,     \* root data-theme attribute
  drawerHidden,  \* drawer has the hidden attribute
  ariaExpanded,  \* menuToggle aria-expanded
  bodyOverflow,  \* document.body.style.overflow
  active,        \* let active
  closeTimer,    \* let closeTimer (the handle, not the timer)
  isOpen,        \* items carrying the class is-open
  pending,       \* timers scheduled with setTimeout and neither fired nor cleared
  nextTimerId,   \* the id the next setTimeout returns
  ev,            \* the event dispatched last, with the state its handlers found
  ran,           \* the script ran to its end: every handler is registered
  navTree,       \* window.__NAV_TREE__
  accDom,        \* the elements of drawerNav, in document order
  headings,      \* the h2/h3 elements of #content, in document order
  toc            \* what the TOC builder put into #toc

vars == <<width, docDefault, stored, dataTheme, drawerHidden, ariaExpanded,
          bodyOverflow, active, closeTimer, isOpen, pending, nextTimerId, ev,
          ran, navTree, accDom, headings, toc>>

\* the drawer navigation and the table of contents
auxVars == <<navTree, accDom, headings, toc>>

themeVars == <<docDefault, stored, dataTheme>>
drawerVars == <<drawerHidden, ariaExpanded, bodyOverflow>>
menuVars == <<active, closeTimer, isOpen, pending, nextTimerId>>

\* mqDesktop.matches / window.matchMedia("(min-width: 981px)").matches
Matches(w) == w >= DesktopMin

\* ------------------------------------------------------------ event log
Was == [active |-> active, pending |-> pending # {},
        hidden |-> drawerHidden, theme |-> dataTheme, saved |-> stored,
        matches |-> Matches(width)]

\* no theme state remembered from before the previous event
NoOrig == [theme |-> "none", saved |-> "none"]

Ev(kind, item, rel) ==
  [kind |-> kind, item |-> item, rel |-> rel, was |-> Was, orig |-> NoOrig]

\* a theme toggle that follows a theme toggle also remembers the theme state
\* the first of the two found
ToggleEv ==
  [Ev("themeToggle", NULL, NoTarget) EXCEPT
     !.orig = IF ev.kind = "themeToggle"
                THEN [theme |-> ev.was.theme, saved |-> ev.was.saved]
                ELSE NoOrig]

\* ---------------------------------------------------------------- theme
\* lines 19-20: apply the persisted preference when it is light or dark
applyStoredTheme(saved, attr) ==
  IF saved = "light" \/ saved = "dark" THEN saved ELSE attr

Theme == [attr |-> dataTheme, saved |-> stored]

SetTheme(t) ==
  /\ dataTheme' = t.attr
  /\ stored' = t.saved
  /\ docDefault' = docDefault

\* a flip that leaves a theme other than light and dark as it is
nextTheme_OnlyKnown(current) ==
  IF current = "dark" THEN "light"
  ELSE IF current = "light" THEN "dark" ELSE current

\* line 25
nextTheme(current) == IF current = "dark" THEN "light" ELSE "dark"

\* a toggle that applies the theme and does not persist it
themeToggleClick_NoPersist(t) == [attr |-> nextTheme(t.attr), saved |-> t.saved]

\* lines 23-28: setAttribute("data-theme", next), setItem("theme", next)
themeToggleClick(t) == [attr |-> nextTheme(t.attr), saved |-> nextTheme(t.attr)]

\* ---------------------------------------------------------------- drawer
\* the drawer as the page markup ships it: closed
drawerMarkup == [hidden |-> TRUE, aria |-> "false", overflow |-> ""]

Drawer == [hidden |-> drawerHidden, aria |-> ariaExpanded, overflow |-> bodyOverflow]

openDrawer(d) == [hidden |-> FALSE, aria |-> "true", overflow |-> "hidden"]

\* a closeDrawer that leaves the page scroll-locked
closeDrawer_KeepsOverflow(d) ==
  [hidden |-> TRUE, aria |-> "false", overflow |-> d.overflow]

closeDrawer(d) == [hidden |-> TRUE, aria |-> "false", overflow |-> ""]

SetDrawer(d) ==
  /\ drawerHidden' = d.hidden
  /\ ariaExpanded' = d.aria
  /\ bodyOverflow' = d.overflow

\* a toggle handler that only ever opens
menuToggleClick_AlwaysOpens(d) == openDrawer(d)

\* lines 52-56
menuToggleClick(d) == IF d.hidden THEN openDrawer(d) ELSE closeDrawer(d)

\* lines 61-63
drawerClick(d, targetIsDrawer) == IF targetIsDrawer THEN closeDrawer(d) ELSE d

\* lines 64-66
drawerKeydown(d, key) == IF key = "Escape" /\ ~d.hidden THEN closeDrawer(d) ELSE d

\* a resize handler that closes at every width
drawerResize_AnyWidth(d, w) == closeDrawer(d)

\* lines 69-71
drawerResize(d, w) == IF Matches(w) THEN closeDrawer(d) ELSE d

\* ------------------------------------------------------------ hover menu
Menu == [active |-> active, closeTimer |-> closeTimer, isOpen |-> isOpen,
         pending |-> pending, nextTimerId |-> nextTimerId]

SetMenu(m) ==
  /\ active' = m.active
  /\ closeTimer' = m.closeTimer
  /\ isOpen' = m.isOpen
  /\ pending' = m.pending
  /\ nextTimerId' = m.nextTimerId

clearCloseTimer(m) ==
  IF m.closeTimer # NULL
    THEN [m EXCEPT !.pending = @ \ {m.closeTimer}, !.closeTimer = NULL]
    ELSE m

\* a doClose that forgets the is-open class
doClose_KeepsClass(m) ==
  IF m.active # NULL THEN [m EXCEPT !.active = NULL] ELSE m

doClose(m) ==
  IF m.active # NULL
    THEN [m EXCEPT !.isOpen = @ \ {m.active}, !.active = NULL]
    ELSE m

\* setTimeout(doClose, 120): a fresh timer id, remembered in closeTimer
scheduleClose(m) ==
  [m EXCEPT !.closeTimer = m.nextTimerId,
            !.pending = @ \cup {m.nextTimerId},
            !.nextTimerId = @ + 1]

\* closeActive that never defers
closeActive_ClosesAtOnce(m, immediate) == doClose(clearCloseTimer(m))

\* closeActive that schedules without cancelling the pending close
closeActive_NoClear(m, immediate) ==
  IF immediate THEN doClose(clearCloseTimer(m)) ELSE scheduleClose(m)

closeActive(m, immediate) ==
  LET m1 == clearCloseTimer(m)
  IN IF immediate THEN doClose(m1) ELSE scheduleClose(m1)

\* openItem that leaves the previous item's is-open class in place
openItem_KeepsPrevious(m, li) ==
  LET m1 == clearCloseTimer(m)
  IN [m1 EXCEPT !.active = li, !.isOpen = @ \cup {li}]

\* openItem that does not cancel the pending close
openItem_NoClear(m, li) ==
  LET m2 == IF m.active # NULL /\ m.active # li
              THEN [m EXCEPT !.isOpen = @ \ {m.active}]
              ELSE m
  IN [m2 EXCEPT !.active = li, !.isOpen = @ \cup {li}]

openItem(m, li) ==
  LET m1 == clearCloseTimer(m)
      m2 == IF m1.active # NULL /\ m1.active # li
              THEN [m1 EXCEPT !.isOpen = @ \ {m1.active}]
              ELSE m1
  IN [m2 EXCEPT !.active = li, !.isOpen = @ \cup {li}]

\* submenu.contains(e.relatedTarget), submenu the one of item li
submenuContains(li, rel) == rel = <<"submenu", li>>

\* li.contains(e.relatedTarget): the item holds its trigger and its submenu
liContains(li, rel) == rel \in {<<"trigger", li>>, <<"submenu", li>>}

\* closeActive(false) calls setTimeout: possible while timer ids remain
CanSchedule == nextTimerId <= MaxTimers

\* a pointerenter that leaves an item that is already open alone
liPointerEnter_OnlyWhenNoneOpen(m, w, li) ==
  IF ~Matches(w) THEN m
  ELSE IF m.active # NULL THEN clearCloseTimer(m)
  ELSE openItem(m, li)

\* lines 215-218
liPointerEnter(m, w, li) == IF ~Matches(w) THEN m ELSE openItem(m, li)

\* a pointerleave that does not look at the destination
liPointerLeave_NoSubmenuCheck(m, w, li, rel) ==
  IF ~Matches(w) THEN m ELSE closeActive(m, FALSE)

\* lines 221-226
liPointerLeave(m, w, li, rel) ==
  IF ~Matches(w) THEN m
  ELSE IF submenuContains(li, rel) THEN m
  ELSE closeActive(m, FALSE)

\* a submenu pointerenter without the desktop check
subPointerEnter_NoDesktopCheck(m, w, li) == openItem(clearCloseTimer(m), li)

\* lines 229-233
subPointerEnter(m, w, li) ==
  IF ~Matches(w) THEN m ELSE openItem(clearCloseTimer(m), li)

\* lines 235-240
subPointerLeave(m, w, li, rel) ==
  IF ~Matches(w) THEN m
  ELSE IF liContains(li, rel) THEN m
  ELSE closeActive(m, FALSE)

\* lines 244-248
menuPointerDown(m, w, inMenu) ==
  IF ~Matches(w) THEN m
  ELSE IF ~inMenu THEN closeActive(m, TRUE) ELSE m

\* lines 251-254
menuKeydown(m, w, key) ==
  IF ~Matches(w) THEN m
  ELSE IF key = "Escape" THEN closeActive(m, TRUE) ELSE m

\* a breakpoint change that closes after the delay
mqChange_Deferred(m) == closeActive(m, FALSE)

\* lines 260-262: the media query's result changed
mqChange(m) == closeActive(m, TRUE)

\* setupDesktopMenus, lines 207-208, on the fresh script state of lines 176-177
setupDesktopMenus ==
  [active |-> NULL, closeTimer |-> NULL, isOpen |-> {}, pending |-> {},
   nextTimerId |-> 1]

\* ----------------------------------------------------------------- Init
\* The state once the script has run on a freshly loaded page.
PageLoad(w, doc, saved) ==
  /\ width = w
  /\ docDefault = doc
  /\ stored = saved
  /\ dataTheme = applyStoredTheme(saved, doc)
  /\ drawerHidden = drawerMarkup.hidden
  /\ ariaExpanded = drawerMarkup.aria
  /\ bodyOverflow = drawerMarkup.overflow
  /\ active = setupDesktopMenus.active
  /\ closeTimer = setupDesktopMenus.closeTimer
  /\ isOpen = setupDesktopMenus.isOpen
  /\ pending = setupDesktopMenus.pending
  /\ nextTimerId = setupDesktopMenus.nextTimerId
  /\ ev = [kind |-> "load", item |-> NULL, rel |-> NoTarget,
           was |-> [active |-> NULL, pending |-> FALSE, hidden |-> TRUE,
                    theme |-> doc, saved |-> saved, matches |-> Matches(w)],
           orig |-> NoOrig]

\* a page without navigation tree (window.__NAV_TREE__ || []) and without
\* headings: the accordion is empty and the TOC is the placeholder
PlainPage ==
  /\ navTree = <<>>
  /\ accDom = <<>>
  /\ headings = <<>>
  /\ toc = [built |-> TRUE, items |-> <<>>, placeholder |-> TRUE]

Init == \E w \in Widths, doc \in DocThemes, saved \in StoredThemes :
          PageLoad(w, doc, saved) /\ ran = TRUE /\ PlainPage

\* -------------------------------------------------------------- actions
\* the page is loaded again: the markup is parsed anew and the script reruns;
\* localStorage is what survives
Reload ==
  /\ width' = width
  /\ SetTheme([attr |-> applyStoredTheme(stored, docDefault), saved |-> stored])
  /\ SetDrawer(drawerMarkup)
  /\ SetMenu(setupDesktopMenus)
  /\ ev' = Ev("reload", NULL, NoTarget)
  /\ ran' = TRUE
  /\ UNCHANGED auxVars

\* lines 23-28
ThemeToggleClick ==
  /\ SetTheme(themeToggleClick(Theme))
  /\ ev' = ToggleEv
  /\ UNCHANGED <<width, drawerVars, menuVars>>
  /\ UNCHANGED <<ran, auxVars>>

MenuToggleClick ==
  /\ SetDrawer(menuToggleClick(Drawer))
  /\ ev' = Ev("menuToggle", NULL, NoTarget)
  /\ UNCHANGED <<width, themeVars, menuVars>>
  /\ UNCHANGED <<ran, auxVars>>

\* line 58
MenuCloseClick ==
  /\ SetDrawer(closeDrawer(Drawer))
  /\ ev' = Ev("menuClose", NULL, NoTarget)
  /\ UNCHANGED <<width, themeVars, menuVars>>
  /\ UNCHANGED <<ran, auxVars>>

\* a click inside the drawer: on the container itself or on a descendant
DrawerClick(targetIsDrawer) ==
  /\ SetDrawer(drawerClick(Drawer, targetIsDrawer))
  /\ ev' = Ev(IF targetIsDrawer THEN "drawerClick" ELSE "drawerChildClick",
              NULL, NoTarget)
  /\ UNCHANGED <<width, themeVars, menuVars>>
  /\ UNCHANGED <<ran, auxVars>>

\* window keydown: the drawer's handler (64-66) and the menu's (251-254)
KeyDown(key) ==
  /\ SetDrawer(drawerKeydown(Drawer, key))
  /\ SetMenu(menuKeydown(Menu, width, key))
  /\ ev' = Ev("keydown", NULL, <<key, NULL>>)
  /\ UNCHANGED <<width, themeVars>>
  /\ UNCHANGED <<ran, auxVars>>

\* the viewport gets width w: window resize (69-71), and the media query's
\* change event (260-262) when w is on the other side of the breakpoint
Resize(w) ==
  /\ width' = w
  /\ SetDrawer(drawerResize(Drawer, w))
  /\ SetMenu(IF Matches(w) # Matches(width) THEN mqChange(Menu) ELSE Menu)
  /\ ev' = Ev("resize", NULL, NoTarget)
  /\ UNCHANGED themeVars
  /\ UNCHANGED <<ran, auxVars>>

LiPointerEnter(li) ==
  /\ SetMenu(liPointerEnter(Menu, width, li))
  /\ ev' = Ev("liEnter", li, NoTarget)
  /\ UNCHANGED <<width, themeVars, drawerVars>>
  /\ UNCHANGED <<ran, auxVars>>

LiPointerLeave(li, rel) ==
  /\ (Matches(width) /\ ~submenuContains(li, rel)) => CanSchedule
  /\ SetMenu(liPointerLeave(Menu, width, li, rel))
  /\ ev' = Ev("liLeave", li, rel)
  /\ UNCHANGED <<width, themeVars, drawerVars>>
  /\ UNCHANGED <<ran, auxVars>>

SubPointerEnter(li) ==
  /\ SetMenu(subPointerEnter(Menu, width, li))
  /\ ev' = Ev("subEnter", li, NoTarget)
  /\ UNCHANGED <<width, themeVars, drawerVars>>
  /\ UNCHANGED <<ran, auxVars>>

SubPointerLeave(li, rel) ==
  /\ (Matches(width) /\ ~liContains(li, rel)) => CanSchedule
  /\ SetMenu(subPointerLeave(Menu, width, li, rel))
  /\ ev' = Ev("subLeave", li, rel)
  /\ UNCHANGED <<width, themeVars, drawerVars>>
  /\ UNCHANGED <<ran, auxVars>>

\* document pointerdown; inMenu: e.target.closest(".menubar") is not null
PointerDown(inMenu) ==
  /\ SetMenu(menuPointerDown(Menu, width, inMenu))
  /\ ev' = Ev(IF inMenu THEN "pointerdownInMenu" ELSE "pointerdown",
              NULL, NoTarget)
  /\ UNCHANGED <<width, themeVars, drawerVars>>
  /\ UNCHANGED <<ran, auxVars>>

\* a pending timer expires: the browser drops it and runs doClose; the
\* closeTimer handle is left as it is
TimerFire(id) ==
  /\ id \in pending
  /\ SetMenu(doClose([Menu EXCEPT !.pending = @ \ {id}]))
  /\ ev' = Ev("timer", id, NoTarget)
  /\ UNCHANGED <<width, themeVars, drawerVars>>
  /\ UNCHANGED <<ran, auxVars>>

Next ==
  \/ Reload
  \/ ThemeToggleClick
  \/ MenuToggleClick
  \/ MenuCloseClick
  \/ \E t \in BOOLEAN : DrawerClick(t)
  \/ \E k \in Keys : KeyDown(k)
  \/ \E w \in Widths : Resize(w)
  \/ \E li \in Items : LiPointerEnter(li)
  \/ \E li \in Items, rel \in Targets : LiPointerLeave(li, rel)
  \/ \E li \in Items : SubPointerEnter(li)
  \/ \E li \in Items, rel \in Targets : SubPointerLeave(li, rel)
  \/ \E b \in BOOLEAN : PointerDown(b)
  \/ \E id \in TimerIds : TimerFire(id)

Spec == Init /\ [][Next]_vars

\* the browser runs a timer once its delay has elapsed
LiveSpec == Spec /\ WF_vars(\E id \in TimerIds : TimerFire(id))

\* ------------------------------------------------------------- strings
\* A string is a sequence of one-character strings.

\* s.replaceAll(c, r) for a one-character c
RECURSIVE replaceAll(_, _, _)
replaceAll(s, c, r) ==
  IF s = <<>> THEN <<>>
  ELSE (IF Head(s) = c THEN r ELSE <<Head(s)>>) \o replaceAll(Tail(s), c, r)

\* an escapeHtml that replaces the ampersand last
escapeHtml_AmpLast(s) ==
  LET s1 == replaceAll(s, "<", <<"&", "l", "t", ";">>)
      s2 == replaceAll(s1, ">", <<"&", "g", "t", ";">>)
      s3 == replaceAll(s2, "\"", <<"&", "q", "u", "o", "t", ";">>)
      s4 == replaceAll(s3, "'", <<"&", "#", "0", "3", "9", ";">>)
  IN replaceAll(s4, "&", <<"&", "a", "m", "p", ";">>)

\* lines 153-160
escapeHtml(s) ==
  LET s1 == replaceAll(s, "&", <<"&", "a", "m", "p", ";">>)
      s2 == replaceAll(s1, "<", <<"&", "l", "t", ";">>)
      s3 == replaceAll(s2, ">", <<"&", "g", "t", ";">>)
      s4 == replaceAll(s3, "\"", <<"&", "q", "u", "o", "t", ";">>)
  IN replaceAll(s4, "'", <<"&", "#", "0", "3", "9", ";">>)

\* lines 161-162
escHtml(s) == escapeHtml(s)

escAttr(s) == escapeHtml(s)

\* s.charCodeAt(i) for the characters of the model's URLs
charCode(c) ==
  CASE c = "/" -> 47
    [] c = "A" -> 65
    [] c = "B" -> 66
    [] c = "a" -> 97

\* 16-bit halves: a 32-bit integer is the pair <<high half, low half>> of its
\* two's complement bits
Half == 65536

\* one round of the loop of line 166: ((h << 5) - h) + c, then h |= 0;
\* 31 * h + c modulo 2^32 on the halves
hashStep(h, c) ==
  LET lo == 31 * h[2] + c
      hi == 31 * h[1] + (lo \div Half)
  IN <<hi % Half, lo % Half>>

RECURSIVE hashLoop(_, _)
hashLoop(h, s) ==
  IF s = <<>> THEN h ELSE hashLoop(hashStep(h, charCode(Head(s))), Tail(s))

\* Math.abs of the 32-bit integer with halves h, as halves of the magnitude
\* (the magnitude of -2^31 is 2^31, halves <<32768, 0>>)
abs32(h) ==
  IF h[1] < Half \div 2 THEN h
  ELSE IF h[2] = 0 THEN <<(Half - h[1]) % Half, 0>>
  ELSE <<Half - 1 - h[1], Half - h[2]>>

\* lines 164-168: the decimal string is taken as the number it spells
hash(s) == abs32(hashLoop(<<0, 0>>, s))

\* ----------------------------------------------------------- accordion
\* node.url values of the model: "Aa" and "BB" have the same hash
Urls == {<<"A", "a">>, <<"B", "B">>, <<"/">>}

\* node.title of every node of the model
Title == <<"T", "&">>

\* NavNode trees with n nodes; noList marks a node without children property
RECURSIVE NodesOfSize(_), ForestsOfSize(_)
NodesOfSize(n) ==
  IF n = 1
    THEN {[url |-> u, title |-> Title, children |-> <<>>, noList |-> b] :
            u \in Urls, b \in BOOLEAN}
    ELSE {[url |-> u, title |-> Title, children |-> f, noList |-> FALSE] :
            u \in Urls, f \in ForestsOfSize(n - 1)}

ForestsOfSize(n) ==
  IF n = 0 THEN {<<>>}
  ELSE UNION {{<<t>> \o f : t \in NodesOfSize(k), f \in ForestsOfSize(n - k)} :
                k \in 1..n}

NavTrees == UNION {ForestsOfSize(n) : n \in 0..MaxNodes}

\* node.children && node.children.length
hasKids(node) == ~node.noList /\ Len(node.children) > 0

\* elements of the rendered markup
\* <a class=cls href=href>text</a>
Link(cls, indent, url, text) ==
  [el |-> "link", cls |-> cls, indent |-> indent, href |-> escAttr(url),
   text |-> text, id |-> <<0, 0>>, expanded |-> "none"]

\* <section|div class="acc" data-acc=id aria-expanded="false">
Acc(tag, id) ==
  [el |-> "acc", cls |-> tag, indent |-> FALSE, href |-> <<>>,
   text |-> <<>>, id |-> id, expanded |-> "false"]

\* <button data-acc-toggle=id><span>text</span>...</button>
Toggle(id, text) ==
  [el |-> "toggle", cls |-> "acc__top", indent |-> FALSE, href |-> <<>>,
   text |-> text, id |-> id, expanded |-> "none"]

overview == <<" ", "o", "v", "e", "r", "v", "i", "e", "w">>

\* the concatenation of the renderings of a list of nodes (map + join)
RECURSIVE joinMap(_, _, _)

\* a renderChild that renders every node as a link
renderChild_AlwaysLeaf(node, depth) ==
  <<Link("acc__child", depth > 0, node.url, escHtml(node.title))>>

\* lines 108-128
RECURSIVE renderChild(_, _)
renderChild(node, depth) ==
  IF ~hasKids(node)
    THEN <<Link("acc__child", depth > 0, node.url, escHtml(node.title))>>
    ELSE LET id == hash(node.url)
         IN <<Acc("div", id),
              Toggle(id, escHtml(node.title)),
              Link("acc__child", depth > 0, node.url,
                   escHtml(node.title) \o overview)>>
            \o joinMap(node.children, depth + 1, TRUE)

\* lines 86-106
renderNode(node, depth) ==
  IF ~hasKids(node)
    THEN <<Link("drawer__leaf", depth > 0, node.url, escHtml(node.title))>>
    ELSE LET id == hash(node.url)
         IN <<Acc("section", id),
              Toggle(id, escHtml(node.title)),
              Link("acc__child", FALSE, node.url,
                   escHtml(node.title) \o overview)>>
            \o joinMap(node.children, depth + 1, TRUE)

joinMap(nodes, depth, child) ==
  IF nodes = <<>> THEN <<>>
  ELSE (IF child THEN renderChild(Head(nodes), depth)
                 ELSE renderNode(Head(nodes), depth))
       \o joinMap(Tail(nodes), depth, child)

\* line 74
renderNav(tree) == joinMap(tree, 0, FALSE)

\* drawerNav.querySelector("[data-acc='id']"): the first element in
\* document order with that data-acc, NULL when there is none
querySelectorAcc(dom, id) ==
  LET hits == {q \in 1..Len(dom) : dom[q].el = "acc" /\ dom[q].id = id}
  IN IF hits = {} THEN NULL ELSE CHOOSE q \in hits : \A r \in hits : q <= r

\* lines 76-82, btn the element at position p
accToggleClick(dom, p) ==
  LET acc == querySelectorAcc(dom, dom[p].id)
  IN IF acc = NULL THEN dom
     ELSE [dom EXCEPT ![acc].expanded = IF @ = "true" THEN "false" ELSE "true"]

\* a page with a navigation tree: the accordion is rendered at load
InitAcc ==
  /\ PageLoad(DesktopMin, Absent, Absent)
  /\ ran = TRUE
  /\ navTree \in NavTrees
  /\ accDom = renderNav(navTree)
  /\ headings = <<>>
  /\ toc = [built |-> TRUE, items |-> <<>>, placeholder |-> TRUE]

\* a click on the toggle button at position p of drawerNav
AccToggleClick(p) ==
  /\ accDom[p].el = "toggle"
  /\ accDom' = accToggleClick(accDom, p)
  /\ ev' = Ev("accToggle", p, NoTarget)
  /\ UNCHANGED <<width, themeVars, drawerVars, menuVars, ran, navTree,
                 headings, toc>>

NextAcc == \E p \in 1..Len(accDom) : AccToggleClick(p)

\* the drawer navigation of a page with a navigation tree
AccSpec == InitAcc /\ [][NextAcc]_vars

\* ------------------------------------------------------ table of contents
\* the letters of the model's heading texts
LowerLetters == {"a", "d", "e", "g", "i", "n", "r", "s", "t", "l"}
UpperLetters == {"G", "S"}

\* the regular expression classes \w and \s on the model's characters
isWord(c) == c \in LowerLetters \cup UpperLetters \cup {"_", "0", "3", "9"}

isSpace(c) == c \in {" ", "\t"}

\* toLowerCase of one character
lowerChar(c) == CASE c = "G" -> "g" [] c = "S" -> "s" [] OTHER -> c

toLowerCase(s) == [i \in 1..Len(s) |-> lowerChar(s[i])]

RECURSIVE trimStart(_), trimEnd(_)
trimStart(s) ==
  IF s # <<>> /\ isSpace(Head(s)) THEN trimStart(Tail(s)) ELSE s

trimEnd(s) ==
  IF s # <<>> /\ isSpace(s[Len(s)]) THEN trimEnd(SubSeq(s, 1, Len(s) - 1)) ELSE s

trim(s) == trimEnd(trimStart(s))

\* .replace(/[^\w\s-]/g, "")
RECURSIVE stripOthers(_)
stripOthers(s) ==
  IF s = <<>> THEN <<>>
  ELSE (IF isWord(Head(s)) \/ isSpace(Head(s)) \/ Head(s) = "-"
          THEN <<Head(s)>> ELSE <<>>)
       \o stripOthers(Tail(s))

\* .replace(/\s+/g, "-"): each maximal run of whitespace becomes one hyphen
RECURSIVE hyphenateRuns(_)
hyphenateRuns(s) ==
  IF s = <<>> THEN <<>>
  ELSE IF isSpace(Head(s)) THEN <<"-">> \o hyphenateRuns(trimStart(s))
  ELSE <<Head(s)>> \o hyphenateRuns(Tail(s))

\* a slug that turns every whitespace character into a hyphen of its own
slugify_EachSpace(text) ==
  LET s == stripOthers(trim(toLowerCase(text)))
  IN [i \in 1..Len(s) |-> IF isSpace(s[i]) THEN "-" ELSE s[i]]

\* lines 138-142
slugify(text) == hyphenateRuns(stripOthers(trim(toLowerCase(text))))

\* lines 137-143: the id of heading h once the builder has seen it
headingId(h) == IF h.id = <<>> THEN slugify(h.text) ELSE h.id

\* lines 144-145 and 149: the entry of heading h, and its anchor
tocEntry(h) ==
  [href |-> <<"#">> \o headingId(h),
   depth |-> IF h.tag = "H3" THEN 3 ELSE 2,
   html |-> escapeHtml(h.text)]

\* lines 133-151
buildToc(hs) ==
  [headings |-> [i \in 1..Len(hs) |-> [hs[i] EXCEPT !.id = headingId(hs[i])]],
   toc |-> [built |-> TRUE,
            items |-> [i \in 1..Len(hs) |-> tocEntry(hs[i])],
            placeholder |-> Len(hs) = 0]]

\* all strings over alphabet a of length at most n
RECURSIVE StringsUpTo(_, _)
StringsUpTo(a, n) ==
  IF n = 0 THEN {<<>>}
  ELSE LET shorter == StringsUpTo(a, n - 1)
       IN shorter \cup {<<c>> \o t : c \in a, t \in {u \in shorter : Len(u) = n - 1}}

GettingStarted ==
  <<"G", "e", "t", "t", "i", "n", "g", " ", "S", "t", "a", "r", "t", "e", "d", "!">>

\* heading texts of the slug model
SlugAlphabet == {"G", "a", " ", "\t", "!", "-", "_"}
SlugTexts == StringsUpTo(SlugAlphabet, MaxText) \cup {GettingStarted}

\* heading texts of the escaping model
EscAlphabet == {"&", "<", ">", "\"", "'", "l", "t", ";"}
EscTexts == StringsUpTo(EscAlphabet, MaxEscLen)

\* a heading of #content; markupId is the id attribute the markup ships,
\* <<>> when there is none
Heading(tag, id, text) == [tag |-> tag, markupId |-> id, id |-> id, text |-> text]

\* a page whose content holds the headings hs, before the TOC builder runs
ContentPage(hs) ==
  /\ PageLoad(DesktopMin, Absent, Absent)
  /\ ran = TRUE
  /\ navTree = <<>>
  /\ accDom = <<>>
  /\ headings = hs
  /\ toc = [built |-> FALSE, items |-> <<>>, placeholder |-> FALSE]

InitToc ==
  \/ \E text \in SlugTexts, id \in {<<>>, <<"x">>} :
       ContentPage(<<Heading("H2", id, text)>>)
  \/ ContentPage(<<Heading("H3", <<>>, GettingStarted)>>)

InitEsc ==
  \/ \E text \in EscTexts : ContentPage(<<Heading("H2", <<>>, text)>>)
  \/ ContentPage(<<>>)

\* the TOC builder of lines 133-151 runs, once
BuildToc ==
  /\ ~toc.built
  /\ headings' = buildToc(headings).headings
  /\ toc' = buildToc(headings).toc
  /\ ev' = Ev("tocBuild", NULL, NoTarget)
  /\ UNCHANGED <<width, themeVars, drawerVars, menuVars, ran, navTree, accDom>>

NextToc == BuildToc

\* the table of contents of a page with one heading
TocSpec == InitToc /\ [][NextToc]_vars

\* the escaping of the heading text in the table of contents
EscSpec == InitEsc /\ [][NextToc]_vars

\* ------------------------------------------------- storage that throws
\* lines 26-27 when localStorage.setItem throws: the attribute is already
\* set, the stored value is not written
themeToggleClickThrows(t) == [attr |-> nextTheme(t.attr), saved |-> t.saved]

\* line 19 when localStorage.getItem throws: the exception leaves the
\* script's function, nothing after line 19 runs, no handler is registered
LoadAborted(w, doc, saved) ==
  /\ width = w
  /\ docDefault = doc
  /\ stored = saved
  /\ dataTheme = doc
  /\ drawerHidden = drawerMarkup.hidden
  /\ ariaExpanded = drawerMarkup.aria
  /\ bodyOverflow = drawerMarkup.overflow
  /\ active = NULL
  /\ closeTimer = NULL
  /\ isOpen = {}
  /\ pending = {}
  /\ nextTimerId = 1
  /\ ev = [kind |-> "loadThrows", item |-> NULL, rel |-> NoTarget,
           was |-> [active |-> NULL, pending |-> FALSE, hidden |-> TRUE,
                    theme |-> doc, saved |-> saved, matches |-> Matches(w)],
           orig |-> NoOrig]
  /\ ran = FALSE

InitF == \E w \in Widths, doc \in DocThemes, saved \in StoredThemes :
           /\ \/ PageLoad(w, doc, saved) /\ ran = TRUE
              \/ LoadAborted(w, doc, saved)
           /\ PlainPage

\* any event of a page whose handlers are all registered, storage working
WiredEvent == ran /\ Next

\* a click on the theme toggle whose setItem throws
ThemeToggleClickThrows ==
  /\ ran
  /\ SetTheme(themeToggleClickThrows(Theme))
  /\ ev' = Ev("themeToggleThrows", NULL, NoTarget)
  /\ UNCHANGED <<width, drawerVars, menuVars, ran, auxVars>>

\* the page is loaded again and getItem works
ReloadRecovers == ~ran /\ Reload

\* the page is loaded again and getItem throws
ReloadThrows ==
  /\ width' = width
  /\ SetTheme([attr |-> docDefault, saved |-> stored])
  /\ SetDrawer(drawerMarkup)
  /\ SetMenu(setupDesktopMenus)
  /\ ev' = Ev("reloadThrows", NULL, NoTarget)
  /\ ran' = FALSE
  /\ UNCHANGED auxVars

\* events the aborted script registered no handler for
UnwiredKinds == {"themeToggle", "menuToggle", "menuClose", "liEnter", "resize"}

\* an event on a page whose script was aborted: no handler runs
UnwiredEvent(kind, li, w) ==
  /\ ~ran
  /\ kind = "liEnter" <=> li # NULL
  /\ kind # "resize" => w = width
  /\ width' = w
  /\ ev' = Ev(kind, li, NoTarget)
  /\ UNCHANGED <<themeVars, drawerVars, menuVars, ran, auxVars>>

NextF ==
  \/ WiredEvent
  \/ ThemeToggleClickThrows
  \/ ReloadRecovers
  \/ ReloadThrows
  \/ \E kind \in UnwiredKinds, li \in Items \cup {NULL}, w \in Widths :
       UnwiredEvent(kind, li, w)

\* the page with a localStorage that may throw on any call
FaultSpec == InitF /\ [][NextF]_vars

\* ------------------------------------------------------------- helpers
\* the event dispatched last was a pointerenter of an item or of its
\* submenu, handled on a desktop viewport
EnterOnDesktop(e, w) == e.kind \in {"liEnter", "subEnter"} /\ Matches(w)

\* the event dispatched last was a pointerleave the handlers do not ignore
\* on a desktop viewport: its destination is an unrelated area
LeaveToElsewhere(e, w) ==
  /\ Matches(w)
  /\ \/ e.kind = "liLeave" /\ ~submenuContains(e.item, e.rel)
     \/ e.kind = "subLeave" /\ ~liContains(e.item, e.rel)

\* a pointerleave the handlers ignore on a desktop viewport: out of an item
\* into its own submenu, or out of a submenu into its parent item
LeaveWithinItem(e, w) ==
  /\ Matches(w)
  /\ \/ e.kind = "liLeave" /\ submenuContains(e.item, e.rel)
     \/ e.kind = "subLeave" /\ liContains(e.item, e.rel)

\* ------------------------------------------------------------------ C1
\* C1: in every reachable state at most one top-level menu item carries
\* the is-open marker.
C1_AtMostOneOpen == Cardinality(isOpen) <= 1

\* item 2 was opened by a pointerenter while item 1 was the open one
C1_Witness ==
  /\ ev.kind = "liEnter" /\ ev.item = 2 /\ ev.was.active = 1 /\ ev.was.matches
  /\ isOpen = {2}

\* ------------------------------------------------------------------ C2
\* C2: in every reachable state at most one deferred-close timer is
\* pending, and it is the one the closeTimer handle names; a pointerleave
\* that schedules a close while another is pending leaves exactly one.
C2_AtMostOneTimer ==
  /\ Cardinality(pending) <= 1
  /\ pending \subseteq {closeTimer}
  /\ (LeaveToElsewhere(ev, width) /\ ev.was.pending) => Cardinality(pending) = 1

\* a second pointerleave arrived while the close of the first was pending
C2_Witness ==
  /\ LeaveToElsewhere(ev, width) /\ ev.was.pending
  /\ pending = {2}

\* ------------------------------------------------------------------ C3
\* C3: on a desktop viewport every pointerenter of an item or of its
\* submenu leaves no deferred close pending and the entered item open and
\* active; the step after it is never a timer firing, and it closes the
\* entered item only when it is a pointer-down outside the menubar, an
\* Escape, a breakpoint change or the opening of another item (which a
\* single pointer delivers after the leave of this one); a page reload ends
\* the page life.
C3_EnterCancelsClose ==
  [][ /\ EnterOnDesktop(ev', width') =>
           /\ pending' = {}
           /\ closeTimer' = NULL
           /\ active' = ev'.item
           /\ ev'.item \in isOpen'
      /\ EnterOnDesktop(ev, width) =>
           /\ ev'.kind # "timer"
           /\ ev.item \notin isOpen' =>
                \/ ev'.kind = "pointerdown"
                \/ ev'.kind = "keydown" /\ ev'.rel[1] = "Escape"
                \/ ev'.kind = "resize" /\ Matches(width') # Matches(width)
                \/ ev'.kind \in {"liEnter", "subEnter"} /\ ev'.item # ev.item
                \/ ev'.kind = "reload"
    ]_vars

\* the pointer entered the submenu of the open item while its close was
\* pending: the close is cancelled and the item is still open
C3_Witness ==
  /\ ev.kind = "subEnter" /\ ev.was.pending /\ ev.was.active = ev.item
  /\ Matches(width)
  /\ pending = {} /\ active = ev.item /\ ev.item \in isOpen

\* ------------------------------------------------------------------ C4
\* C4: if item a is open and the pointer enters the trigger of another
\* item b on a desktop viewport, then in the next state a is closed, b is
\* open and active = b, whether or not a close of a was pending.
C4_EnterOtherSwitches ==
  [][ \A a, b \in Items :
        ( /\ a # b
          /\ active = a /\ a \in isOpen
          /\ Matches(width)
          /\ ev'.kind = "liEnter" /\ ev'.item = b )
        => ( a \notin isOpen' /\ b \in isOpen' /\ active' = b )
    ]_vars

\* item 1 was open with its close pending when the pointer entered item 2
C4_Witness ==
  /\ ev.kind = "liEnter" /\ ev.item = 2
  /\ ev.was.active = 1 /\ ev.was.pending /\ ev.was.matches
  /\ active = 2 /\ isOpen = {2} /\ pending = {}

\* ------------------------------------------------------------------ C5
\* C5: a pointerleave of an item into its own submenu, and a pointerleave
\* of a submenu into its parent item, change nothing of the menu: no close
\* is scheduled, active and the open markers are unchanged.
C5_LeaveWithinItemIgnored ==
  [][ LeaveWithinItem(ev', width') => UNCHANGED menuVars ]_vars

\* the pointer left the open item 1 into its own submenu: still open, no
\* close scheduled
C5_Witness ==
  /\ ev.kind = "liLeave" /\ ev.item = 1 /\ ev.rel = <<"submenu", 1>>
  /\ ev.was.active = 1 /\ ~ev.was.pending /\ ev.was.matches
  /\ active = 1 /\ isOpen = {1} /\ pending = {} /\ closeTimer = NULL

\* ------------------------------------------------------------------ C6
\* C6: a pointerleave of an item (or of its submenu) to an unrelated area
\* closes nothing at once: it schedules a deferred close and leaves active
\* and the open markers as they were; a timer that fires closes the item;
\* and an open item with a close pending is eventually closed (active is
\* none) unless a pointerenter cancels the close.
C6_DeferredClose ==
  /\ [][ /\ LeaveToElsewhere(ev', width') =>
              /\ pending' = {closeTimer'}
              /\ closeTimer' # NULL
              /\ active' = active
              /\ isOpen' = isOpen
         /\ ev'.kind = "timer" =>
              /\ active' = NULL
              /\ isOpen' = {}
              /\ pending' = {}
       ]_vars
  /\ (active # NULL /\ pending # {})
       ~> (active = NULL \/ EnterOnDesktop(ev, width))

\* the deferred close of an open item has fired: the item is closed
C6_Witness ==
  /\ ev.kind = "timer" /\ ev.was.active # NULL /\ ev.was.pending
  /\ active = NULL /\ isOpen = {} /\ pending = {}

\* ------------------------------------------------------------------ C7
\* C7: a pointer-down outside the menubar and an Escape key press, both on
\* a desktop viewport, and a resize across the breakpoint each leave no
\* item open, active none and no deferred close pending; a pointer-down
\* inside the menubar changes nothing of the menu.
C7_ImmediateClose ==
  [][ /\ ( \/ ev'.kind = "pointerdown" /\ Matches(width)
           \/ ev'.kind = "keydown" /\ ev'.rel[1] = "Escape" /\ Matches(width)
           \/ ev'.kind = "resize" /\ Matches(width') # Matches(width) )
         => ( active' = NULL /\ isOpen' = {} /\ pending' = {} )
      /\ ev'.kind = "pointerdownInMenu" => UNCHANGED menuVars
    ]_vars

\* a pointer-down outside the menubar found an item open with its close
\* pending and closed it at once
C7_Witness ==
  /\ ev.kind = "pointerdown" /\ ev.was.matches
  /\ ev.was.active # NULL /\ ev.was.pending
  /\ active = NULL /\ isOpen = {} /\ pending = {}

\* ------------------------------------------------------------------ C8
\* C8: a toggle-button press flips the drawer between closed and open; the
\* close button, a click on the drawer container itself, Escape while open
\* and a resize to a width of at least 981px leave it closed; a click on a
\* descendant of the drawer and a resize to a narrower width leave the
\* drawer as it was.
C8_DrawerTransitions ==
  [][ /\ ev'.kind = "menuToggle" => drawerHidden' = ~drawerHidden
      /\ ev'.kind \in {"menuClose", "drawerClick"} => drawerHidden'
      /\ (ev'.kind = "keydown" /\ ev'.rel[1] = "Escape" /\ ~drawerHidden)
           => drawerHidden'
      /\ (ev'.kind = "resize" /\ width' >= 981) => drawerHidden'
      /\ ev'.kind = "drawerChildClick" => UNCHANGED drawerVars
      /\ (ev'.kind = "resize" /\ width' < 981) => UNCHANGED drawerVars
    ]_vars

\* the toggle button was pressed on an open drawer and closed it
C8_Witness ==
  /\ ev.kind = "menuToggle" /\ ~ev.was.hidden
  /\ drawerHidden

\* ------------------------------------------------------------------ C9
\* C9 as stated: whenever the drawer is open and the viewport is resized
\* across the 981px boundary, in either direction, the drawer is closed
\* after the resize event.
C9_ClosedAfterAnyCrossing ==
  [][ ( /\ ~drawerHidden
        /\ ev'.kind = "resize"
        /\ Matches(width') # Matches(width) )
      => drawerHidden'
    ]_vars

\* C9 amended: a resize of an open drawer closes it exactly when the new
\* width is at least 981px (so a crossing from narrow to wide closes it);
\* a crossing from wide to narrow leaves an open drawer open.
C9_ClosedIffResizedToWide ==
  [][ ( ~drawerHidden /\ ev'.kind = "resize" )
      => ( /\ drawerHidden' <=> (width' >= 981)
           /\ (width' < 981) => UNCHANGED drawerVars )
    ]_vars

\* the drawer was open on a narrow viewport and the resize to a wide one
\* closed it
C9_Witness ==
  /\ ev.kind = "resize" /\ ~ev.was.hidden /\ ~ev.was.matches
  /\ width >= 981 /\ drawerHidden

\* ----------------------------------------------------------------- C10
\* C10: after every toggle the document theme is dark if it was anything
\* other than dark before and light if it was dark, and the persisted
\* preference equals it; a page reload restores the theme that was active
\* before the reload.
C10_ToggleAndReload ==
  [][ /\ ev'.kind = "themeToggle" =>
           /\ dataTheme' = (IF dataTheme = "dark" THEN "light" ELSE "dark")
           /\ stored' = dataTheme'
      /\ ev'.kind = "reload" => dataTheme' = dataTheme
    ]_vars

\* a reload of a page whose markup ships the dark theme restored the light
\* theme that was active and persisted
C10_Witness ==
  /\ ev.kind = "reload" /\ ev.was.theme = "light"
  /\ docDefault = "dark" /\ stored = "light" /\ dataTheme = "light"

\* ----------------------------------------------------------------- C11
\* C11 as stated: from any initial state, absent included, two theme
\* toggles in a row return the theme attribute and the persisted preference
\* to what they were before the first.
C11_TwoTogglesRestore ==
  (ev.kind = "themeToggle" /\ ev.orig # NoOrig)
    => (dataTheme = ev.orig.theme /\ stored = ev.orig.saved)

\* C11 amended: two theme toggles in a row leave the attribute at dark when
\* it was dark before and at light otherwise, and the persisted preference
\* equal to it; so both return to their original values exactly when the
\* attribute was light or dark and the preference was equal to it.
C11_TwoTogglesNormalise ==
  (ev.kind = "themeToggle" /\ ev.orig # NoOrig)
    => /\ dataTheme = (IF ev.orig.theme = "dark" THEN "dark" ELSE "light")
       /\ stored = dataTheme
       /\ (dataTheme = ev.orig.theme /\ stored = ev.orig.saved)
            <=> (ev.orig.theme \in {"light", "dark"} /\ ev.orig.saved = ev.orig.theme)

\* two toggles from no attribute and no stored preference ended at light
C11_Witness ==
  /\ ev.kind = "themeToggle"
  /\ ev.orig = [theme |-> Absent, saved |-> Absent]
  /\ dataTheme = "light" /\ stored = "light"

\* ----------------------------------------------------------------- C12
\* C12: storage failures do not crash the page: also when getItem throws at
\* page load or setItem throws on a toggle, a press of the menu toggle
\* flips the drawer, a pointerenter on a desktop viewport opens the item,
\* and a toggle whose write failed has applied the new theme.
C12_StorageFailureHarmless ==
  /\ ev.kind = "menuToggle" => drawerHidden = ~ev.was.hidden
  /\ (ev.kind = "liEnter" /\ Matches(width))
       => (active = ev.item /\ ev.item \in isOpen)
  /\ ev.kind = "themeToggleThrows" => dataTheme = nextTheme(ev.was.theme)

\* ----------------------------------------------------------------- C13
\* C13: a press of the toggle button of a branch flips the expanded
\* attribute of that branch's own section (the element the button is the
\* first child of) between 'false' and 'true' and leaves every other
\* element as it was, for every tree, branches with the same URL or with
\* coinciding hash identifiers included.
C13_ToggleFlipsOwnSection ==
  [][ \A p \in 1..Len(accDom) :
        (ev'.kind = "accToggle" /\ ev'.item = p)
        => /\ accDom'[p - 1].expanded
                = (IF accDom[p - 1].expanded = "true" THEN "false" ELSE "true")
           /\ \A q \in 1..Len(accDom) : q # p - 1 => accDom'[q] = accDom[q]
    ]_vars

\* ----------------------------------------------------------------- C14
\* nodes of a forest with at least one child / without children
RECURSIVE CountBranches(_), CountLeaves(_), PreOrderUrls(_)
CountBranches(f) ==
  IF f = <<>> THEN 0
  ELSE (IF ~Head(f).noList /\ Head(f).children # <<>> THEN 1 ELSE 0)
       + CountBranches(IF Head(f).noList THEN <<>> ELSE Head(f).children)
       + CountBranches(Tail(f))

CountLeaves(f) ==
  IF f = <<>> THEN 0
  ELSE (IF Head(f).noList \/ Head(f).children = <<>> THEN 1 ELSE 0)
       + CountLeaves(IF Head(f).noList THEN <<>> ELSE Head(f).children)
       + CountLeaves(Tail(f))

\* the URLs of the nodes, parents before children, children in their order
PreOrderUrls(f) ==
  IF f = <<>> THEN <<>>
  ELSE <<Head(f).url>>
       \o PreOrderUrls(IF Head(f).noList THEN <<>> ELSE Head(f).children)
       \o PreOrderUrls(Tail(f))

ElementsAt(kind) == {p \in 1..Len(accDom) : accDom[p].el = kind}

\* a link that is not the overview link of a section: the element before it
\* is not a toggle button
PlainLinks ==
  {p \in ElementsAt("link") : p = 1 \/ accDom[p - 1].el # "toggle"}

\* C14: for every NavNode tree the rendered drawer navigation holds exactly
\* one section per node with at least one child, each with its one toggle
\* button (same identifier, directly inside it); every node without
\* children (absent or empty list) is a plain link without toggle; the
\* links follow the order of the tree; at load every section is collapsed.
C14_OnePairPerBranch ==
  /\ Cardinality(ElementsAt("acc")) = CountBranches(navTree)
  /\ Cardinality(ElementsAt("toggle")) = CountBranches(navTree)
  /\ \A p \in ElementsAt("acc") :
       /\ p < Len(accDom)
       /\ accDom[p + 1].el = "toggle"
       /\ accDom[p + 1].id = accDom[p].id
  /\ Cardinality(PlainLinks) = CountLeaves(navTree)
  /\ Len(accDom) = 3 * CountBranches(navTree) + CountLeaves(navTree)
  /\ SelectSeq([p \in 1..Len(accDom) |-> accDom[p].href], LAMBDA h : h # <<>>)
       = PreOrderUrls(navTree)
  /\ ev.kind = "load" => \A p \in ElementsAt("acc") : accDom[p].expanded = "false"

\* a branch inside a branch, rendered at load: two sections, one leaf link
C14_Witness ==
  /\ ev.kind = "load"
  /\ Len(navTree) = 1
  /\ Len(navTree[1].children) = 1
  /\ Len(navTree[1].children[1].children) = 1
  /\ Cardinality(ElementsAt("acc")) = 2
  /\ Cardinality(PlainLinks) = 1

\* ----------------------------------------------------------------- C15
\* the five entities escapeHtml emits, with the character each stands for
Entities ==
  { <<"&", <<"&", "a", "m", "p", ";">> >>,
    <<"<", <<"&", "l", "t", ";">> >>,
    <<">", <<"&", "g", "t", ";">> >>,
    <<"\"", <<"&", "q", "u", "o", "t", ";">> >>,
    <<"'", <<"&", "#", "0", "3", "9", ";">> >> }

\* the entities that start at position i of s
EntitiesAt(s, i) ==
  {e \in Entities : /\ i + Len(e[2]) - 1 <= Len(s)
                    /\ SubSeq(s, i, i + Len(e[2]) - 1) = e[2]}

\* replacing the entities back, left to right
RECURSIVE Unescape(_)
Unescape(s) ==
  IF s = <<>> THEN <<>>
  ELSE IF EntitiesAt(s, 1) # {}
    THEN LET e == CHOOSE x \in EntitiesAt(s, 1) : TRUE
         IN <<e[1]>> \o Unescape(SubSeq(s, Len(e[2]) + 1, Len(s)))
  ELSE <<Head(s)>> \o Unescape(Tail(s))

\* C15: for every string s the escaped result holds none of < > " ' and no
\* & other than the first character of one of the five entities, and
\* replacing the entities back yields s.
C15_EscapeRoundTrip ==
  toc.built =>
    \A i \in 1..Len(headings) :
      LET s == headings[i].text
          r == toc.items[i].html
      IN /\ \A k \in 1..Len(r) :
              /\ r[k] \notin {"<", ">", "\"", "'"}
              /\ r[k] = "&" => EntitiesAt(r, k) # {}
         /\ Unescape(r) = s

\* the text "&lt;" was escaped to "&amp;lt;"
C15_Witness ==
  /\ toc.built
  /\ Len(headings) = 1
  /\ headings[1].text = <<"&", "l", "t", ";">>
  /\ toc.items[1].html = <<"&", "a", "m", "p", ";", "l", "t", ";">>

\* ----------------------------------------------------------------- C16
\* the slug as the claim words it: lowercase, trim, keep only word
\* characters, whitespace and hyphens, and put one hyphen for every run of
\* whitespace
SlugAsDescribed(text) ==
  LET low == [i \in 1..Len(text) |->
                IF text[i] \in UpperLetters
                  THEN CHOOSE c \in LowerLetters : lowerChar(text[i]) = c
                  ELSE text[i]]
      inner == {i \in 1..Len(low) : ~isSpace(low[i])}
      first == IF inner = {} THEN 1 ELSE CHOOSE i \in inner : \A j \in inner : i <= j
      last == IF inner = {} THEN 0 ELSE CHOOSE i \in inner : \A j \in inner : j <= i
      trimmed == SubSeq(low, first, last)
      kept == SelectSeq(trimmed, LAMBDA c : isWord(c) \/ isSpace(c) \/ c = "-")
      starts == {i \in 1..Len(kept) :
                   ~isSpace(kept[i]) \/ i = 1 \/ ~isSpace(kept[i - 1])}
      out == [i \in 1..Len(kept) |-> IF isSpace(kept[i]) THEN "-" ELSE kept[i]]
      RECURSIVE pick(_)
      pick(i) == IF i > Len(kept) THEN <<>>
                 ELSE (IF i \in starts THEN <<out[i]>> ELSE <<>>) \o pick(i + 1)
  IN pick(1)

\* C16: the TOC builder gives a heading without id the slug of its text
\* ('Getting Started!' yields 'getting-started'), leaves the id of a heading
\* that has one, and links each entry to '#' followed by the heading's id.
C16_SlugAndAnchor ==
  toc.built =>
    \A i \in 1..Len(headings) :
      LET h == headings[i]
      IN /\ h.markupId = <<>> => h.id = SlugAsDescribed(h.text)
         /\ h.markupId # <<>> => h.id = h.markupId
         /\ toc.items[i].href = <<"#">> \o h.id
         /\ (h.markupId = <<>> /\ h.text = GettingStarted)
              => h.id = <<"g", "e", "t", "t", "i", "n", "g", "-",
                          "s", "t", "a", "r", "t", "e", "d">>

\* the heading 'Getting Started!' without id got the id 'getting-started'
C16_Witness ==
  /\ toc.built
  /\ headings[1].markupId = <<>>
  /\ headings[1].text = GettingStarted
  /\ headings[1].id = <<"g", "e", "t", "t", "i", "n", "g", "-",
                        "s", "t", "a", "r", "t", "e", "d">>
  /\ toc.items[1].href = <<"#", "g", "e", "t", "t", "i", "n", "g", "-",
                           "s", "t", "a", "r", "t", "e", "d">>

\* ----------------------------------------------------------------- C17
\* C17: after every drawer transition the three effects agree: the drawer
\* is revealed iff the toggle's aria-expanded is 'true' iff the body's
\* overflow is 'hidden'; and in no reachable state is the page scroll-locked
\* while the drawer is hidden.
C17_DrawerEffectsAgree ==
  /\ ev.kind \in {"menuToggle", "menuClose", "drawerClick", "drawerChildClick",
                  "keydown", "resize"}
       => /\ ~drawerHidden <=> ariaExpanded = "true"
          /\ ~drawerHidden <=> bodyOverflow = "hidden"
          /\ drawerHidden <=> ariaExpanded = "false"
          /\ drawerHidden <=> bodyOverflow = ""
  /\ drawerHidden => bodyOverflow # "hidden"

\* a click on the backdrop of the open drawer closed it: hidden, not
\* expanded, scrolling enabled again
C17_Witness ==
  /\ ev.kind = "drawerClick" /\ ~ev.was.hidden
  /\ drawerHidden /\ ariaExpanded = "false" /\ bodyOverflow = ""

\* ----------------------------------------------------------------- C18
\* C18: while the viewport is not desktop the pointerenter and pointerleave
\* handlers of items and submenus, the pointer-down handler and the Escape
\* handler leave active, the open markers and the close timer unchanged.
C18_NoOpOffDesktop ==
  [][ ( /\ ~Matches(width)
        /\ ev'.kind \in {"liEnter", "liLeave", "subEnter", "subLeave",
                         "pointerdown", "pointerdownInMenu", "keydown"} )
      => UNCHANGED menuVars
    ]_vars

\* the pointer entered a submenu on a narrow viewport: nothing opened
C18_Witness ==
  /\ ev.kind = "subEnter" /\ ~ev.was.matches /\ ~Matches(width)
  /\ active = NULL /\ isOpen = {} /\ pending = {} /\ closeTimer = NULL

\* ----------------------------------------------------------------- C19
\* C19: closeTimer holds a timer exactly when a deferred close is pending:
\* it is none initially, after every cancel, after every immediate close
\* and again after a scheduled close has fired.
C19_HandleIffPending ==
  /\ closeTimer # NULL <=> pending # {}
  /\ ev.kind = "timer" => closeTimer = NULL

\* ----------------------------------------------------------------- C20
\* C20: in every reachable state with a viewport that is not desktop no
\* item is open, active is none and no deferred close is pending; and in
\* every reachable state the items carrying is-open are exactly {active}
\* when active is set and none when it is not.
C20_ClosedOffDesktop ==
  /\ ~Matches(width) => (isOpen = {} /\ active = NULL /\ pending = {})
  /\ isOpen = (IF active # NULL THEN {active} ELSE {})

\* a resize from desktop to narrow found an item open with its close
\* pending and left everything closed
C20_Witness ==
  /\ ev.kind = "resize" /\ ev.was.matches /\ ~Matches(width)
  /\ ev.was.active # NULL /\ ev.was.pending
  /\ isOpen = {} /\ active = NULL /\ pending = {}
====
